---- MODULE Spec2Model ----
(***************************************************************************)
(* Resume analyzer: skill taxonomy, text normalizer, TF-IDF similarity     *)
(* engine, skill extractor and gap analyzer, modelled from src/core.       *)
(*                                                                         *)
(* Texts are TLA+ strings; a character is a string of length 1.            *)
(* Confidences are in hundredths (1.0 = 100), weights in tenths (1.2 = 12).*)
(***************************************************************************)
EXTENDS Integers, Sequences, FiniteSets, TLC

VARIABLES
    tx_pc, tx_next, skills, variant_index, tx_query, tx_result,
    ex_pc, ex_text, seen, matches, ex_result,
    pp_pc, pp_text, pp_once, pp_twice,
    sim_pc, resume_text, jd_text, sim_result,
    ga_pc, resume_skills, jd_skills, report,
    pdf_pc, strategies, pdf_i, errors, invoked, pdf_result,
    iv_pc, iv_text, iv_valid,
    calls

tx_vars == <<tx_pc, tx_next, skills, variant_index, tx_query, tx_result>>

ex_vars == <<ex_pc, ex_text, seen, matches, ex_result>>

pp_vars == <<pp_pc, pp_text, pp_once, pp_twice>>

sim_vars == <<sim_pc, resume_text, jd_text, sim_result>>

ga_vars == <<ga_pc, resume_skills, jd_skills, report>>

pdf_vars == <<pdf_pc, strategies, pdf_i, errors, invoked, pdf_result>>

iv_vars == <<iv_pc, iv_text, iv_valid>>

cc_vars == <<calls>>

vars == <<tx_vars, ex_vars, pp_vars, sim_vars, ga_vars, pdf_vars, iv_vars, cc_vars>>

(***************************************************************************)
(* Strings (Python str and re primitives, ASCII)                           *)
(***************************************************************************)
\* the character at index i (1-based), "" outside the string
Chr(s, i) == IF i >= 1 /\ i <= Len(s) THEN SubSeq(s, i, i) ELSE ""

Chars(s) == {Chr(s, i) : i \in 1..Len(s)}

Range(seq) == {seq[i] : i \in DOMAIN seq}

UpperLetters == "ABCDEFGHIJKLMNOPQRSTUVWXYZ"

LowerLetters == "abcdefghijklmnopqrstuvwxyz"

DigitChars == Chars("0123456789")

\* \w of the re module, on ASCII
WordChars == Chars(UpperLetters) \cup Chars(LowerLetters) \cup DigitChars \cup {"_"}

\* \s of the re module and str.strip(), on ASCII
WhitespaceChars == {" ", "\t", "\n", "\r", "\f"}

UpperSet == Chars(UpperLetters)

LowerSet == Chars(LowerLetters)

ToLower == [c \in UpperSet |-> Chr(LowerLetters, CHOOSE i \in 1..26 : Chr(UpperLetters, i) = c)]

ToUpper == [c \in LowerSet |-> Chr(UpperLetters, CHOOSE i \in 1..26 : Chr(LowerLetters, i) = c)]

LowerChar(c) == IF c \in UpperSet THEN ToLower[c] ELSE c

UpperChar(c) == IF c \in LowerSet THEN ToUpper[c] ELSE c

RECURSIVE LowerStr(_)
\* str.lower()
LowerStr(s) == IF s = "" THEN "" ELSE LowerChar(Head(s)) \o LowerStr(Tail(s))

RECURSIVE UpperStr(_)
\* str.upper()
UpperStr(s) == IF s = "" THEN "" ELSE UpperChar(Head(s)) \o UpperStr(Tail(s))

RECURSIVE LStrip(_)
LStrip(s) == IF s # "" /\ Head(s) \in WhitespaceChars THEN LStrip(Tail(s)) ELSE s

RECURSIVE RStrip(_)
RStrip(s) ==
    IF s # "" /\ Chr(s, Len(s)) \in WhitespaceChars
    THEN RStrip(SubSeq(s, 1, Len(s) - 1))
    ELSE s

\* str.strip()
Strip(s) == RStrip(LStrip(s))

\* the literal lit occurs in s at index i (1-based)
OccursAt(s, lit, i) ==
    /\ i >= 1
    /\ i + Len(lit) - 1 <= Len(s)
    /\ SubSeq(s, i, i + Len(lit) - 1) = lit

\* Python's  lit in s
Contains(s, lit) == \E i \in 1..(Len(s) + 1) : OccursAt(s, lit, i)

\* str.find(), 1-based; 0 when absent (Python's -1)
Find(s, lit) ==
    IF Contains(s, lit)
    THEN CHOOSE i \in 1..(Len(s) + 1) :
            /\ OccursAt(s, lit, i)
            /\ \A j \in 1..(i - 1) : ~OccursAt(s, lit, j)
    ELSE 0

IsWordAt(s, i) == i >= 1 /\ i <= Len(s) /\ Chr(s, i) \in WordChars

\* \b between s[p] and s[p+1], p in 0..Len(s)
Boundary(s, p) == IsWordAt(s, p) # IsWordAt(s, p + 1)

\* re.search(rf"\b{re.escape(lit)}\b", s) finds a match
SearchWord(s, lit) ==
    \E i \in 1..(Len(s) + 1) :
        /\ OccursAt(s, lit, i)
        /\ Boundary(s, i - 1)
        /\ Boundary(s, i + Len(lit) - 1)

(***************************************************************************)
(* core/config.py: Skill, SkillTaxonomy                                    *)
(***************************************************************************)
None == "None"

\* None where a Skill is expected
NoSkill == [none |-> TRUE]

\* Skill.__post_init__: variants are lowercased and stripped
Skill(name, category, weight, variants, strict_match) ==
    [name |-> name, category |-> category, weight |-> weight,
     variants |-> [i \in DOMAIN variants |-> Strip(LowerStr(variants[i]))],
     strict_match |-> strict_match]

skills_raw == <<
    [name |-> "Python", category |-> "languages", weight |-> 12, variants |-> <<"python", "python3", "py">>, strict_match |-> FALSE],
    [name |-> "Java", category |-> "languages", weight |-> 12, variants |-> <<"java", "java8", "java11">>, strict_match |-> FALSE],
    [name |-> "JavaScript", category |-> "languages", weight |-> 12, variants |-> <<"javascript", "js", "es6">>, strict_match |-> FALSE],
    [name |-> "TypeScript", category |-> "languages", weight |-> 11, variants |-> <<"typescript", "ts">>, strict_match |-> FALSE],
    [name |-> "C++", category |-> "languages", weight |-> 11, variants |-> <<"c++", "cpp", "cplusplus">>, strict_match |-> FALSE],
    [name |-> "C", category |-> "languages", weight |-> 10, variants |-> <<"c programming">>, strict_match |-> TRUE],
    [name |-> "C#", category |-> "languages", weight |-> 11, variants |-> <<"c#", "csharp">>, strict_match |-> FALSE],
    [name |-> "Go", category |-> "languages", weight |-> 10, variants |-> <<"golang">>, strict_match |-> TRUE],
    [name |-> "React", category |-> "frameworks", weight |-> 10, variants |-> <<"react", "reactjs">>, strict_match |-> FALSE],
    [name |-> "Angular", category |-> "frameworks", weight |-> 9, variants |-> <<"angular">>, strict_match |-> FALSE],
    [name |-> "Vue.js", category |-> "frameworks", weight |-> 9, variants |-> <<"vue", "vuejs">>, strict_match |-> FALSE],
    [name |-> "Node.js", category |-> "frameworks", weight |-> 10, variants |-> <<"nodejs", "node">>, strict_match |-> FALSE],
    [name |-> "Django", category |-> "frameworks", weight |-> 10, variants |-> <<"django">>, strict_match |-> FALSE],
    [name |-> "Flask", category |-> "frameworks", weight |-> 9, variants |-> <<"flask">>, strict_match |-> FALSE],
    [name |-> "Spring Boot", category |-> "frameworks", weight |-> 10, variants |-> <<"spring boot", "spring">>, strict_match |-> FALSE],
    [name |-> ".NET", category |-> "frameworks", weight |-> 10, variants |-> <<"dotnet", ".net">>, strict_match |-> FALSE],
    [name |-> "TensorFlow", category |-> "ml", weight |-> 10, variants |-> <<"tensorflow", "tf">>, strict_match |-> FALSE],
    [name |-> "PyTorch", category |-> "ml", weight |-> 10, variants |-> <<"pytorch", "torch">>, strict_match |-> FALSE],
    [name |-> "scikit-learn", category |-> "ml", weight |-> 9, variants |-> <<"sklearn">>, strict_match |-> FALSE],
    [name |-> "Docker", category |-> "devops", weight |-> 10, variants |-> <<"docker">>, strict_match |-> FALSE],
    [name |-> "Kubernetes", category |-> "devops", weight |-> 9, variants |-> <<"kubernetes", "k8s">>, strict_match |-> FALSE],
    [name |-> "Git", category |-> "devops", weight |-> 8, variants |-> <<"git", "github">>, strict_match |-> FALSE],
    [name |-> "AWS", category |-> "cloud", weight |-> 10, variants |-> <<"aws", "amazon web services">>, strict_match |-> FALSE],
    [name |-> "Azure", category |-> "cloud", weight |-> 9, variants |-> <<"azure">>, strict_match |-> FALSE],
    [name |-> "GCP", category |-> "cloud", weight |-> 9, variants |-> <<"gcp", "google cloud">>, strict_match |-> FALSE],
    [name |-> "SQL", category |-> "databases", weight |-> 11, variants |-> <<"sql">>, strict_match |-> FALSE],
    [name |-> "MySQL", category |-> "databases", weight |-> 9, variants |-> <<"mysql">>, strict_match |-> FALSE],
    [name |-> "PostgreSQL", category |-> "databases", weight |-> 9, variants |-> <<"postgresql", "postgres">>, strict_match |-> FALSE],
    [name |-> "MongoDB", category |-> "databases", weight |-> 9, variants |-> <<"mongodb", "mongo">>, strict_match |-> FALSE],
    [name |-> "Algorithms", category |-> "fundamentals", weight |-> 13, variants |-> <<"algorithms", "algo", "dsa">>, strict_match |-> FALSE],
    [name |-> "Data Structures", category |-> "fundamentals", weight |-> 13, variants |-> <<"data structures", "dsa">>, strict_match |-> FALSE],
    [name |-> "OOP", category |-> "fundamentals", weight |-> 11, variants |-> <<"oop", "object oriented">>, strict_match |-> FALSE],
    [name |-> "System Design", category |-> "fundamentals", weight |-> 12, variants |-> <<"system design", "architecture">>, strict_match |-> FALSE]
>>

skills_data ==
    [i \in DOMAIN skills_raw |->
        Skill(skills_raw[i].name, skills_raw[i].category, skills_raw[i].weight,
              skills_raw[i].variants, skills_raw[i].strict_match)]

\* dict[key] = value, keeping insertion order (a re-assigned key keeps its place)
DictPut(d, key, value) ==
    IF \E i \in DOMAIN d : d[i].key = key
    THEN [i \in DOMAIN d |-> IF d[i].key = key THEN [key |-> key, skill |-> value] ELSE d[i]]
    ELSE Append(d, [key |-> key, skill |-> value])

\* SkillTaxonomy._register: the two assignments, no check of what is already there
RegisterSkills(d, skill) == DictPut(d, LowerStr(skill.name), skill)

RegisterVariants(vi, skill) ==
    [v \in (DOMAIN vi) \cup Range(skill.variants) |->
        IF v \in Range(skill.variants) THEN skill ELSE vi[v]]

\* self._variant_index.get(variant.lower())
get_by_variant(vi, variant) ==
    IF LowerStr(variant) \in DOMAIN vi THEN vi[LowerStr(variant)] ELSE NoSkill

RECURSIVE LoadedSkills(_)
LoadedSkills(n) ==
    IF n = 0 THEN <<>> ELSE RegisterSkills(LoadedSkills(n - 1), skills_data[n])

RECURSIVE LoadedVariants(_)
LoadedVariants(n) ==
    IF n = 0 THEN <<>> ELSE RegisterVariants(LoadedVariants(n - 1), skills_data[n])

\* the taxonomy as SkillTaxonomy() leaves it
TaxonomySkills == LoadedSkills(Len(skills_data))

TaxonomyVariants == LoadedVariants(Len(skills_data))

\* lookups tried against the loaded taxonomy
QueryBase ==
    {skills_raw[i].name : i \in DOMAIN skills_raw}
        \cup UNION {Range(skills_raw[i].variants) : i \in DOMAIN skills_raw}

Queries ==
    QueryBase \cup {UpperStr(q) : q \in QueryBase}
              \cup {" " \o q \o " " : q \in QueryBase}
              \cup {"", "rust", "golan"}

\* SkillTaxonomy.__init__: two empty dicts, then _load_skills
InitTaxonomyEmpty ==
    /\ tx_pc = "loading"
    /\ tx_next = 1
    /\ skills = <<>>
    /\ variant_index = <<>>
    /\ tx_query = None
    /\ tx_result = NoSkill

\* a constructed taxonomy (what get_components caches)
InitTaxonomyLoaded ==
    /\ tx_pc = "ready"
    /\ tx_next = Len(skills_data) + 1
    /\ skills = TaxonomySkills
    /\ variant_index = TaxonomyVariants
    /\ tx_query = None
    /\ tx_result = NoSkill

\* one iteration of  for skill in skills_data: self._register(skill)
Register ==
    /\ tx_pc = "loading"
    /\ tx_next <= Len(skills_data)
    /\ skills' = RegisterSkills(skills, skills_data[tx_next])
    /\ variant_index' = RegisterVariants(variant_index, skills_data[tx_next])
    /\ tx_next' = tx_next + 1
    /\ UNCHANGED <<tx_pc, tx_query, tx_result>>
    /\ UNCHANGED <<ex_vars, pp_vars, sim_vars, ga_vars, pdf_vars, iv_vars, cc_vars>>

\* _load_skills returns: the taxonomy is constructed
LoadDone ==
    /\ tx_pc = "loading"
    /\ tx_next > Len(skills_data)
    /\ tx_pc' = "ready"
    /\ UNCHANGED <<tx_next, skills, variant_index, tx_query, tx_result>>
    /\ UNCHANGED <<ex_vars, pp_vars, sim_vars, ga_vars, pdf_vars, iv_vars, cc_vars>>

\* a call of get_by_variant on the constructed taxonomy
GetByVariant ==
    /\ tx_pc = "ready"
    /\ \E q \in Queries :
        /\ tx_query' = q
        /\ tx_result' = get_by_variant(variant_index, q)
    /\ UNCHANGED <<tx_pc, tx_next, skills, variant_index>>
    /\ UNCHANGED <<ex_vars, pp_vars, sim_vars, ga_vars, pdf_vars, iv_vars, cc_vars>>

(***************************************************************************)
(* core/skills.py: the matchers and SkillExtractor                         *)
(***************************************************************************)
MaxTextLen == 4

ExtractAlphabet == {"c", "#", " ", "p", "y"}

RECURSIVE StringsOfLen(_, _)
StringsOfLen(A, n) ==
    IF n = 0 THEN {""} ELSE {s \o c : s \in StringsOfLen(A, n - 1), c \in A}

StringsUpTo(A, n) == UNION {StringsOfLen(A, k) : k \in 0..n}

GolangText == "Experienced in Python and Golang"

ExtractSamples == {GolangText, "SQL", "Go JS", "java"}

ExtractTexts == StringsUpTo(ExtractAlphabet, MaxTextLen) \cup ExtractSamples

Max(S) == CHOOSE x \in S : \A y \in S : y <= x

Min(S) == CHOOSE x \in S : \A y \in S : x <= y

SkillMatch(skill, match_type, confidence, context) ==
    [skill |-> skill, match_type |-> match_type,
     confidence |-> confidence, context |-> context]

\* ExactMatcher._extract_context, window = 50
extract_context(text, term) ==
    LET idx == Find(LowerStr(text), LowerStr(term)) - 1
        start == Max({0, idx - 50})
        end == Min({Len(text), idx + Len(term) + 50})
        body == Strip(SubSeq(text, start + 1, end))
    IN  IF idx = -1 THEN ""
        ELSE (IF start > 0 THEN "..." ELSE "") \o body
                \o (IF end < Len(text) THEN "..." ELSE "")

\* the test of one name or variant against the lowercased text
FoundIn(text_lower, lit, strict_match) ==
    IF strict_match THEN SearchWord(text_lower, lit) ELSE Contains(text_lower, lit)

\* ExactMatcher without its seen.add(key)
ExactSeenKept(s, key) == s

\* seen.add(key) of ExactMatcher
ExactSeenAdd(s, key) == s \cup {key}

RECURSIVE ExactLoop(_, _, _, _, _)
\* ExactMatcher.find_matches: for skill in taxonomy, from the i-th on
ExactLoop(text, text_lower, tax, i, acc) ==
    IF i > Len(tax) THEN acc
    ELSE LET skill == tax[i].skill
             key == LowerStr(skill.name)
         IN  IF key \in acc.seen
             THEN ExactLoop(text, text_lower, tax, i + 1, acc)
             ELSE IF FoundIn(text_lower, key, skill.strict_match)
                  THEN ExactLoop(text, text_lower, tax, i + 1,
                         [matches |-> Append(acc.matches,
                              SkillMatch(skill, "exact", 100,
                                         extract_context(text, skill.name))),
                          seen |-> ExactSeenAdd(acc.seen, key)])
                  ELSE ExactLoop(text, text_lower, tax, i + 1, acc)

ExactFindMatches(text, tax, s) ==
    ExactLoop(text, LowerStr(text), tax, 1, [matches |-> <<>>, seen |-> s])

\* the first variant of the skill found in the text, 0 when none is
FirstVariantFound(text_lower, skill) ==
    LET hits == {v \in DOMAIN skill.variants :
                    FoundIn(text_lower, skill.variants[v], skill.strict_match)}
    IN  IF hits = {} THEN 0 ELSE Min(hits)

RECURSIVE VariantLoop(_, _, _, _, _)
\* VariantMatcher.find_matches: for skill in taxonomy, from the i-th on
VariantLoop(text, text_lower, tax, i, acc) ==
    IF i > Len(tax) THEN acc
    ELSE LET skill == tax[i].skill
             key == LowerStr(skill.name)
             v == FirstVariantFound(text_lower, skill)
         IN  IF key \in acc.seen \/ v = 0
             THEN VariantLoop(text, text_lower, tax, i + 1, acc)
             ELSE VariantLoop(text, text_lower, tax, i + 1,
                    [matches |-> Append(acc.matches,
                         SkillMatch(skill, "variant", 98,
                                    extract_context(text, skill.variants[v]))),
                     seen |-> acc.seen \cup {key}])

VariantFindMatches(text, tax, s) ==
    VariantLoop(text, LowerStr(text), tax, 1, [matches |-> <<>>, seen |-> s])

\* [\w\+\#\.]
TokenChars == WordChars \cup {"+", "#", "."}

\* the number of consecutive characters of class from index i on
RunLen(s, i, class) ==
    Max({n \in 0..(Len(s) - i + 1) : \A k \in 0..(n - 1) : Chr(s, i + k) \in class})

\* the length of the match of \b[\w\+\#\.]{least,}\b at index i, 0 when there
\* is none: the longest run of token characters that ends at a word boundary
TokenLenAt(s, i, least) ==
    LET ends == {n \in least..RunLen(s, i, TokenChars) : Boundary(s, i + n - 1)}
    IN  IF Boundary(s, i - 1) /\ ends # {} THEN Max(ends) ELSE 0

RECURSIVE FindTokens(_, _, _)
\* re.findall(r"\b[\w\+\#\.]{least,}\b", s), scanning from index i
FindTokens(s, i, least) ==
    IF i > Len(s) THEN <<>>
    ELSE IF TokenLenAt(s, i, least) > 0
         THEN <<SubSeq(s, i, i + TokenLenAt(s, i, least) - 1)>>
                  \o FindTokens(s, i + TokenLenAt(s, i, least), least)
         ELSE FindTokens(s, i + 1, least)

\* the {4,} of the fuzzy matcher's token pattern
FuzzyTokenLen == 4

\* skills the fuzzy loop does not skip
FuzzyEligible(tax, s) ==
    {i \in DOMAIN tax : ~(tax[i].key \in s \/ tax[i].skill.strict_match)}

\* FuzzyMatcher.find_matches. The module never binds the name fuzz (it imports
\* SequenceMatcher from difflib and nothing else), so the first evaluation of
\* fuzz.ratio(token, candidate) raises NameError: that is the first token of the
\* first candidate of the first skill the loop does not skip.
FuzzyFindMatches(text, tax, s) ==
    IF FuzzyEligible(tax, s) # {} /\ FindTokens(LowerStr(text), 1, FuzzyTokenLen) # <<>>
    THEN [raised |-> "NameError", matches |-> <<>>, seen |-> s]
    ELSE [raised |-> None, matches |-> <<>>, seen |-> s]

RECURSIVE InsertByConfidence(_, _)
\* m goes after every element whose confidence is at least its own
InsertByConfidence(sorted, m) ==
    IF sorted = <<>> THEN <<m>>
    ELSE IF Head(sorted).confidence >= m.confidence
         THEN <<Head(sorted)>> \o InsertByConfidence(Tail(sorted), m)
         ELSE <<m>> \o sorted

RECURSIVE SortedByConfidence(_)
\* sorted(matches, key=lambda m: m.confidence, reverse=True), a stable sort
SortedByConfidence(ms) ==
    IF ms = <<>> THEN <<>>
    ELSE InsertByConfidence(SortedByConfidence(SubSeq(ms, 1, Len(ms) - 1)), ms[Len(ms)])

InitExtractIdle ==
    /\ ex_pc = "idle"
    /\ ex_text = None
    /\ seen = {}
    /\ matches = <<>>
    /\ ex_result = None

\* extract_skills(text): the empty-text return, or the fresh seen and matches
ExtractCall ==
    /\ ex_pc = "idle"
    /\ \E text \in ExtractTexts :
        /\ ex_text' = text
        /\ IF text = ""
           THEN ex_pc' = "returned" /\ ex_result' = <<>>
           ELSE ex_pc' = "exact" /\ ex_result' = ex_result
    /\ seen' = {}
    /\ matches' = <<>>
    /\ UNCHANGED tx_vars
    /\ UNCHANGED <<pp_vars, sim_vars, ga_vars, pdf_vars, iv_vars, cc_vars>>

\* matches.extend(ExactMatcher().find_matches(text, taxonomy, seen))
RunExact ==
    /\ ex_pc = "exact"
    /\ LET r == ExactFindMatches(ex_text, skills, seen)
       IN  matches' = matches \o r.matches /\ seen' = r.seen
    /\ ex_pc' = "variant"
    /\ UNCHANGED <<tx_vars, ex_text, ex_result>>
    /\ UNCHANGED <<pp_vars, sim_vars, ga_vars, pdf_vars, iv_vars, cc_vars>>

\* matches.extend(VariantMatcher().find_matches(text, taxonomy, seen))
RunVariant ==
    /\ ex_pc = "variant"
    /\ LET r == VariantFindMatches(ex_text, skills, seen)
       IN  matches' = matches \o r.matches /\ seen' = r.seen
    /\ ex_pc' = "fuzzy"
    /\ UNCHANGED <<tx_vars, ex_text, ex_result>>
    /\ UNCHANGED <<pp_vars, sim_vars, ga_vars, pdf_vars, iv_vars, cc_vars>>

\* matches.extend(FuzzyMatcher().find_matches(text, taxonomy, seen)); nothing
\* in extract_skills catches what the matcher raises
RunFuzzy ==
    /\ ex_pc = "fuzzy"
    /\ LET r == FuzzyFindMatches(ex_text, skills, seen)
       IN  /\ matches' = matches \o r.matches
           /\ seen' = r.seen
           /\ IF r.raised # None
              THEN ex_pc' = "raised" /\ ex_result' = r.raised
              ELSE ex_pc' = "sort" /\ ex_result' = ex_result
    /\ UNCHANGED <<tx_vars, ex_text>>
    /\ UNCHANGED <<pp_vars, sim_vars, ga_vars, pdf_vars, iv_vars, cc_vars>>

\* return sorted(matches, ...)
ExtractReturn ==
    /\ ex_pc = "sort"
    /\ ex_result' = SortedByConfidence(matches)
    /\ ex_pc' = "returned"
    /\ UNCHANGED <<tx_vars, ex_text, seen, matches>>
    /\ UNCHANGED <<pp_vars, sim_vars, ga_vars, pdf_vars, iv_vars, cc_vars>>

(***************************************************************************)
(* core/preprocessing.py: TextPreprocessor.process                         *)
(***************************************************************************)
MaxNormLen == 5

NormAlphabet == {"W", ".", "x", " ", "@"}

NormSamples ==
    {"HTTPS://example.com", "see http://a.b now", "mail a@b.c", "(555) 555-5555",
     "555,555,5555", "I know C++ and C#", "Node.JS, iOS"}

NormTexts == StringsUpTo(NormAlphabet, MaxNormLen) \cup NormSamples

\* the printable ASCII characters besides letters and digits
\* (the quote, the backslash and the backquote are left out)
AsciiPunctuation ==
    {" ", "!", "#", "$", "%", "&", "'", "(", ")", "*", "+", ",", "-", ".",
     "/", ":", ";", "<", "=", ">", "?", "@", "[", "]", "^", "_", "{", "|",
     "}", "~"}

AsciiChars == WordChars \cup AsciiPunctuation \cup WhitespaceChars

RECURSIVE AsciiFold(_)
\* unicodedata.normalize("NFKD", text).encode("ascii", "ignore").decode("utf-8"):
\* ASCII characters are their own decomposition, what is not ASCII is dropped
AsciiFold(s) ==
    IF s = "" THEN ""
    ELSE (IF Head(s) \in AsciiChars THEN Head(s) ELSE "") \o AsciiFold(Tail(s))

\* the number of consecutive non-whitespace characters (\S) from index i on
NonSpaceRun(s, i) ==
    Max({n \in 0..(Len(s) - i + 1) :
            \A k \in 0..(n - 1) : Chr(s, i + k) \notin WhitespaceChars})

\* the length of the match of  http\S+|www\.\S+  at index i, 0 when there is none
UrlLenAt(s, i) ==
    IF OccursAt(s, "http", i) /\ NonSpaceRun(s, i + 4) >= 1
    THEN 4 + NonSpaceRun(s, i + 4)
    ELSE IF OccursAt(s, "www.", i) /\ NonSpaceRun(s, i + 4) >= 1
         THEN 4 + NonSpaceRun(s, i + 4)
         ELSE 0

RECURSIVE SubUrls(_, _)
\* re.sub(r"http\S+|www\.\S+", " ", s), scanning from index i
SubUrls(s, i) ==
    IF i > Len(s) THEN ""
    ELSE IF UrlLenAt(s, i) > 0
         THEN " " \o SubUrls(s, i + UrlLenAt(s, i))
         ELSE Chr(s, i) \o SubUrls(s, i + 1)

\* the length of the match of  \S+@\S+  at index i: the greedy \S+ gives back
\* down to the last @ that has a character after it, and the second \S+ then
\* takes the rest of the run
EmailLenAt(s, i) ==
    IF \E k \in (i + 1)..(i + NonSpaceRun(s, i) - 2) : Chr(s, k) = "@"
    THEN NonSpaceRun(s, i)
    ELSE 0

RECURSIVE SubEmails(_, _)
\* re.sub(r"\S+@\S+", " ", s), scanning from index i
SubEmails(s, i) ==
    IF i > Len(s) THEN ""
    ELSE IF EmailLenAt(s, i) > 0
         THEN " " \o SubEmails(s, i + EmailLenAt(s, i))
         ELSE Chr(s, i) \o SubEmails(s, i + 1)

DigitsAt(s, i, n) == \A k \in 0..(n - 1) : Chr(s, i + k) \in DigitChars

\* [-.\s]
PhoneSeparators == {"-", "."} \cup WhitespaceChars

\* the end of the match of \(?\d{3}\)?[-.\s]?\d{3}[-.\s]?\d{4} at index i when
\* the optional parts are taken (1) or left (0) as a, b, c, d say; 0 when that fails
PhoneTry(s, i, a, b, c, d) ==
    LET p1 == i + a
        p2 == p1 + 3
        p3 == p2 + b
        p4 == p3 + c
        p5 == p4 + 3
        p6 == p5 + d
    IN  IF /\ (a = 1 => Chr(s, i) = "(")
           /\ DigitsAt(s, p1, 3)
           /\ (b = 1 => Chr(s, p2) = ")")
           /\ (c = 1 => Chr(s, p3) \in PhoneSeparators)
           /\ DigitsAt(s, p4, 3)
           /\ (d = 1 => Chr(s, p5) \in PhoneSeparators)
           /\ DigitsAt(s, p6, 4)
        THEN p6 + 4 - i
        ELSE 0

\* the length of the phone pattern's match at index i, 0 when there is none. An
\* optional part is never a digit, so at most one way of taking them matches.
PhoneLenAt(s, i) ==
    Max({PhoneTry(s, i, a, b, c, d) : a \in 0..1, b \in 0..1, c \in 0..1, d \in 0..1})

RECURSIVE SubPhones(_, _)
\* re.sub(r"\(?\d{3}\)?[-.\s]?\d{3}[-.\s]?\d{4}", " ", s), scanning from index i
SubPhones(s, i) ==
    IF i > Len(s) THEN ""
    ELSE IF PhoneLenAt(s, i) > 0
         THEN " " \o SubPhones(s, i + PhoneLenAt(s, i))
         ELSE Chr(s, i) \o SubPhones(s, i + 1)

\* the characters  [^\w\s\+\#\.\-]  leaves alone
KeptChars == WordChars \cup WhitespaceChars \cup {"+", "#", ".", "-"}

RECURSIVE SubDisallowed(_)
\* re.sub(r"[^\w\s\+\#\.\-]", " ", s)
SubDisallowed(s) ==
    IF s = "" THEN ""
    ELSE (IF Head(s) \in KeptChars THEN Head(s) ELSE " ") \o SubDisallowed(Tail(s))

RECURSIVE CollapseSpaces(_)
\* re.sub(r"\s+", " ", s)
CollapseSpaces(s) ==
    IF s = "" THEN ""
    ELSE IF Head(s) \in WhitespaceChars
         THEN " " \o CollapseSpaces(LStrip(s))
         ELSE Head(s) \o CollapseSpaces(Tail(s))

\* TECHNICAL_PATTERNS, each \b<literal>\b
TECHNICAL_PATTERNS == <<"c++", "c#", ".net", "ios", "javascript", "typescript", "node.js">>

\* the literal lit, in any case, between word boundaries at index i
TechnicalAt(s, lit, i) ==
    /\ i >= 1
    /\ i + Len(lit) - 1 <= Len(s)
    /\ LowerStr(SubSeq(s, i, i + Len(lit) - 1)) = lit
    /\ Boundary(s, i - 1)
    /\ Boundary(s, i + Len(lit) - 1)

RECURSIVE LowerSpans(_, _, _)
\* every match of the pattern is replaced by its lowercase spelling: the
\* characters inside a match are lowercased, the others stay (from index i on)
LowerSpans(s, lit, i) ==
    IF i > Len(s) THEN ""
    ELSE (IF \E j \in (i - Len(lit) + 1)..i : TechnicalAt(s, lit, j)
          THEN LowerChar(Chr(s, i))
          ELSE Chr(s, i)) \o LowerSpans(s, lit, i + 1)

RECURSIVE Reinforce(_, _)
\* for pattern in self.TECHNICAL_PATTERNS, from the n-th on
Reinforce(s, n) ==
    IF n > Len(TECHNICAL_PATTERNS) THEN s
    ELSE Reinforce(LowerSpans(s, TECHNICAL_PATTERNS[n], 1), n + 1)

\* TextPreprocessor.process
process(text) ==
    IF text = "" THEN ""
    ELSE LET ascii == AsciiFold(text)
             stripped == SubPhones(SubEmails(SubUrls(ascii, 1), 1), 1)
             lowered == LowerStr(stripped)
             cleaned == Strip(CollapseSpaces(SubDisallowed(lowered)))
         IN  Reinforce(cleaned, 1)

InitNormalizeIdle ==
    /\ pp_pc = "idle"
    /\ pp_text = None
    /\ pp_once = None
    /\ pp_twice = None

\* clean = preprocessor.process(text)
Process ==
    /\ pp_pc = "idle"
    /\ \E text \in NormTexts :
        /\ pp_text' = text
        /\ pp_once' = process(text)
    /\ pp_pc' = "once"
    /\ UNCHANGED <<tx_vars, ex_vars, pp_twice>>
    /\ UNCHANGED <<sim_vars, ga_vars, pdf_vars, iv_vars, cc_vars>>

\* process applied to its own output
ProcessAgain ==
    /\ pp_pc = "once"
    /\ pp_twice' = process(pp_once)
    /\ pp_pc' = "twice"
    /\ UNCHANGED <<tx_vars, ex_vars, pp_text, pp_once>>
    /\ UNCHANGED <<sim_vars, ga_vars, pdf_vars, iv_vars, cc_vars>>

(***************************************************************************)
(* core/similarity.py: SimilarityEngine.compute_similarity                 *)
(*                                                                         *)
(* TfidfVectorizer is modelled by what fit_transform does with the         *)
(* configuration of __init__ on the two documents. Weights are fixed-point *)
(* hundredths; a cosine is kept as its dot product and the two squared     *)
(* norms. max_features = 5000 never cuts the vocabulary of texts this      *)
(* short, and the interpretation and the term lists are left out.          *)
(***************************************************************************)
MaxDocWords == 3

\* "a" is a stop word, "b" and "c" are not
SimWords == {"a", "b", "c"}

RECURSIVE WordTexts(_)
\* the texts of n words, a space between two
WordTexts(n) ==
    IF n = 0 THEN {""}
    ELSE IF n = 1 THEN SimWords
    ELSE {t \o " " \o w : t \in WordTexts(n - 1), w \in SimWords}

SimSamples == {" ", "C++ b", "b.c c+", "the b"}

SimTexts == UNION {WordTexts(n) : n \in 0..MaxDocWords} \cup SimSamples

\* stop_words="english": the words of the list that the texts of SimTexts
\* hold, with some of the others
ENGLISH_STOP_WORDS == {"a", "an", "and", "the", "in", "of", "to", "with", "is", "it"}

\* the {1,} that the + of token_pattern stands for
SimTokenLen == 1

\* the n of ngram_range=(1, n)
MaxNGram == 3

\* max_df=0.95, in hundredths
max_df == 95

\* min_df=1 (a count)
min_df == 1

\* the documents of fit_transform([resume_text, jd_text])
n_doc == 2

RECURSIVE SelectSeqNot(_, _)
\* the tokens that are not stop words, in order
SelectSeqNot(tokens, stop) ==
    IF tokens = <<>> THEN <<>>
    ELSE (IF Head(tokens) \in stop THEN <<>> ELSE <<Head(tokens)>>)
            \o SelectSeqNot(Tail(tokens), stop)

\* the analyzer: lowercase, token_pattern, stop words removed
Analyze(doc) == SelectSeqNot(FindTokens(LowerStr(doc), 1, SimTokenLen), ENGLISH_STOP_WORDS)

RECURSIVE JoinTokens(_, _, _)
\* " ".join(tokens[i : i + n])
JoinTokens(tokens, i, n) ==
    IF n = 1 THEN tokens[i] ELSE tokens[i] \o " " \o JoinTokens(tokens, i + 1, n - 1)

\* the places <<i, n>> of the n-grams of the token list
NGramPlaces(tokens) ==
    {p \in (1..Len(tokens)) \X (1..MaxNGram) : p[1] + p[2] - 1 <= Len(tokens)}

\* the count matrix row of a document: term |-> raw term frequency
CountTerms(doc) ==
    LET tokens == Analyze(doc)
        places == NGramPlaces(tokens)
        gram == [p \in places |-> JoinTokens(tokens, p[1], p[2])]
    IN  [t \in {gram[p] : p \in places} |-> Cardinality({p \in places : gram[p] = t})]

\* the terms of a document
Terms(doc) == DOMAIN CountTerms(doc)

\* the number of the two rows that hold the term
DocFreq(resume_row, jd_row, term) ==
    (IF term \in DOMAIN resume_row THEN 1 ELSE 0)
        + (IF term \in DOMAIN jd_row THEN 1 ELSE 0)

\* a document frequency max_df lets through: df <= max_df * n_doc
UnderMaxDf(df) == df * 100 <= max_df * n_doc

\* _limit_features: the terms with min_df <= df <= max_df * n_doc
Vocabulary(resume_row, jd_row) ==
    {t \in (DOMAIN resume_row) \cup (DOMAIN jd_row) :
        /\ UnderMaxDf(DocFreq(resume_row, jd_row, t))
        /\ DocFreq(resume_row, jd_row, t) >= min_df}

\* 100 * ln(n), rounded
LnHundredths(n) == <<0, 69, 110, 139, 161, 179, 195, 208>>[n]

\* 100 * (ln((1 + n_doc) / (1 + df)) + 1), rounded: smooth idf over two documents
IdfHundredths(df) == IF df = 1 THEN 141 ELSE 100

\* sublinear_tf and idf: (1 + ln tf) * idf; 0 where the row does not hold the term
Weight(row, df, term) ==
    IF term \notin DOMAIN row THEN 0
    ELSE ((100 + LnHundredths(row[term])) * IdfHundredths(df)) \div 100

\* the tf-idf row of a document over the vocabulary
TfidfRow(resume_row, jd_row, row) ==
    [t \in Vocabulary(resume_row, jd_row) |->
        Weight(row, DocFreq(resume_row, jd_row, t), t)]

\* the indices of the non-zero entries of a row
NonZero(vec) == {t \in DOMAIN vec : vec[t] > 0}

RECURSIVE SumOver(_, _)
SumOver(f, S) ==
    IF S = {} THEN 0
    ELSE LET x == CHOOSE y \in S : TRUE IN f[x] + SumOver(f, S \ {x})

\* cosine_similarity(resume_vec, jd_vec): dot / sqrt(resume_sq * jd_sq)
Cosine(resume_vec, jd_vec) ==
    [dot |-> SumOver([t \in DOMAIN resume_vec |-> resume_vec[t] * jd_vec[t]], DOMAIN resume_vec),
     resume_sq |-> SumOver([t \in DOMAIN resume_vec |-> resume_vec[t] * resume_vec[t]], DOMAIN resume_vec),
     jd_sq |-> SumOver([t \in DOMAIN jd_vec |-> jd_vec[t] * jd_vec[t]], DOMAIN jd_vec)]

\* _jaccard_overlap
jaccard_overlap(vec1, vec2) ==
    IF NonZero(vec1) \cup NonZero(vec2) # {}
    THEN [num |-> Cardinality(NonZero(vec1) \cap NonZero(vec2)),
          den |-> Cardinality(NonZero(vec1) \cup NonZero(vec2))]
    ELSE [num |-> 0, den |-> 1]

\* _jd_coverage: len(resume_terms & jd_terms) / max(len(jd_terms), 1)
jd_coverage(resume_vec, jd_vec) ==
    [num |-> Cardinality(NonZero(resume_vec) \cap NonZero(jd_vec)),
     den |-> Max({Cardinality(NonZero(jd_vec)), 1})]

\* the check with its jd_vec.nnz half forgotten
InsufficientResumeOnly(resume_vec, jd_vec) == NonZero(resume_vec) = {}

\* if resume_vec.nnz == 0 or jd_vec.nnz == 0: raise ValueError(...)
InsufficientContent(resume_vec, jd_vec) ==
    NonZero(resume_vec) = {} \/ NonZero(jd_vec) = {}

ValueError(message) == [raised |-> "ValueError", message |-> message]

\* compute_similarity: what it raises, or the SimilarityResult
compute_similarity(resume, jd) ==
    LET resume_row == CountTerms(resume)
        jd_row == CountTerms(jd)
        resume_vec == TfidfRow(resume_row, jd_row, resume_row)
        jd_vec == TfidfRow(resume_row, jd_row, jd_row)
    IN  IF resume = "" \/ jd = ""
        THEN ValueError("Both resume and job description text are required")
        ELSE IF (DOMAIN resume_row) \cup (DOMAIN jd_row) = {}
        THEN ValueError("empty vocabulary; perhaps the documents only contain stop words")
        ELSE IF Vocabulary(resume_row, jd_row) = {}
        THEN ValueError("After pruning, no terms remain. Try a lower min_df or a higher max_df.")
        ELSE IF InsufficientContent(resume_vec, jd_vec)
        THEN ValueError("Insufficient textual content for similarity analysis")
        ELSE [raised |-> None,
              overall_score |-> Cosine(resume_vec, jd_vec),
              jaccard_similarity |-> jaccard_overlap(resume_vec, jd_vec),
              term_coverage |-> jd_coverage(resume_vec, jd_vec)]

InitSimilarityIdle ==
    /\ sim_pc = "idle"
    /\ resume_text = None
    /\ jd_text = None
    /\ sim_result = None

\* similarity = sim_engine.compute_similarity(clean_resume, clean_jd)
ComputeSimilarity ==
    /\ sim_pc = "idle"
    /\ \E r \in SimTexts, j \in SimTexts :
        /\ resume_text' = r
        /\ jd_text' = j
        /\ LET result == compute_similarity(r, j)
           IN  /\ sim_result' = result
               /\ sim_pc' = IF result.raised # None THEN "raised" ELSE "returned"
    /\ UNCHANGED <<tx_vars, ex_vars, pp_vars, ga_vars, pdf_vars, iv_vars, cc_vars>>

(***************************************************************************)
(* core/gap_analysis.py: GapAnalyzer.analyze                               *)
(*                                                                         *)
(* A score is kept as a fraction [num, den]. An impact is in units of      *)
(* 1/3000 (0.8 = 2400, 0.6 = 1800, 0.4 = 1200).                            *)
(***************************************************************************)
MaxResumeMatches == 2

MaxJdMatches == 3

\* the skills the match lists are drawn from
GapSkillNames == {"Python", "Docker", "Go"}

\* the confidences of the resume's matches: an exact match and a fuzzy one
\* under 0.9. analyze never reads the confidence of a JD match.
ResumeConfidences == {100, 88}

JdConfidences == {100}

SkillNamed(name) ==
    TaxonomySkills[CHOOSE i \in DOMAIN TaxonomySkills : TaxonomySkills[i].skill.name = name].skill

MatchesOver(confidences) ==
    {SkillMatch(SkillNamed(n), IF c = 100 THEN "exact" ELSE "fuzzy", c, "") :
        n \in GapSkillNames, c \in confidences}

ListsUpTo(S, n) == UNION {[1..k -> S] : k \in 0..n}

ResumeLists == ListsUpTo(MatchesOver(ResumeConfidences), MaxResumeMatches)

\* JD lists with four gaps of one priority, and with gaps of three priorities
JdSampleNames ==
    {<<"Python", "Java", "JavaScript", "TypeScript">>,
     <<"Docker", "React", "AWS", "Go">>,
     <<"Git", "Python", "Docker", "Go">>}

JdSamples ==
    {[i \in DOMAIN names |-> SkillMatch(SkillNamed(names[i]), "exact", 100, "")] :
        names \in JdSampleNames}

JdLists == ListsUpTo(MatchesOver(JdConfidences), MaxJdMatches) \cup JdSamples

\* the orders a for loop over a Python set may take
Orders(S) == {f \in [1..Cardinality(S) -> S] : \A i, j \in DOMAIN f : i # j => f[i] # f[j]}

CATEGORY_WEIGHTS ==
    [c \in {"fundamentals", "languages", "frameworks", "ml", "devops", "cloud", "databases"} |->
        CASE c = "fundamentals" -> 13
          [] c = "languages" -> 12
          [] c = "devops" -> 9
          [] c = "databases" -> 9
          [] OTHER -> 10]

\* {m.skill.name.lower(): m for m in ms}: the last match of a name stays
MatchMap(ms) ==
    [k \in {LowerStr(ms[i].skill.name) : i \in DOMAIN ms} |->
        ms[Max({i \in DOMAIN ms : LowerStr(ms[i].skill.name) = k})]]

\* the 0.9 of _classify_matched, in hundredths
StrongConfidence == 90

\* match.confidence >= 0.9
IsStrong(match) == match.confidence >= StrongConfidence

RECURSIVE SelectMatches(_, _, _, _)
\* _classify_matched: the matches of the keys, in the order of the loop, that
\* are strong (want = TRUE) or weak (want = FALSE)
SelectMatches(order, resume_map, want, i) ==
    IF i > Len(order) THEN <<>>
    ELSE (IF IsStrong(resume_map[order[i]]) = want THEN <<resume_map[order[i]]>> ELSE <<>>)
            \o SelectMatches(order, resume_map, want, i + 1)

\* (skill_weight * category_weight) / 1.5 in IEEE doubles falls one unit in the
\* last place under 0.8 when the product is 1.2 (1.0 * 1.2 / 1.5 gives
\* 0.7999999999999999); every other product of two weights of config.py lands
\* on the side of 0.8, 0.6 and 0.4 where the exact quotient is.
RoundsUnder(skill_weight, category_weight) ==
    IF skill_weight * category_weight = 120 THEN 1 ELSE 0

\* _compute_impact: min((skill_weight * category_weight) / 1.5, 1.0)
compute_impact(match) ==
    LET skill_weight == match.skill.weight
        category_weight ==
            IF match.skill.category \in DOMAIN CATEGORY_WEIGHTS
            THEN CATEGORY_WEIGHTS[match.skill.category] ELSE 10
    IN  Min({20 * skill_weight * category_weight
                - RoundsUnder(skill_weight, category_weight), 3000})

\* the thresholds 0.8, 0.6 and 0.4 of _determine_priority
CriticalImpact == 2400

HighImpact == 1800

MediumImpact == 1200

\* _determine_priority
determine_priority(impact) ==
    IF impact >= CriticalImpact THEN "Critical"
    ELSE IF impact >= HighImpact THEN "High"
    ELSE IF impact >= MediumImpact THEN "Medium"
    ELSE "Low"

SkillGap(match) ==
    [skill_match |-> match,
     priority |-> determine_priority(compute_impact(match)),
     impact_score |-> compute_impact(match)]

RECURSIVE InsertByImpact(_, _)
InsertByImpact(sorted, g) ==
    IF sorted = <<>> THEN <<g>>
    ELSE IF Head(sorted).impact_score >= g.impact_score
         THEN <<Head(sorted)>> \o InsertByImpact(Tail(sorted), g)
         ELSE <<g>> \o sorted

RECURSIVE SortedByImpact(_)
\* sorted(gaps, key=lambda g: g.impact_score, reverse=True), a stable sort
SortedByImpact(gaps) ==
    IF gaps = <<>> THEN <<>>
    ELSE InsertByImpact(SortedByImpact(SubSeq(gaps, 1, Len(gaps) - 1)), gaps[Len(gaps)])

\* _analyze_missing: a gap per key, in the order of the loop, then sorted
analyze_missing(order, jd_map) ==
    SortedByImpact([i \in DOMAIN order |-> SkillGap(jd_map[order[i]])])

CountIn(ms, cat) == Cardinality({i \in DOMAIN ms : ms[i].skill.category = cat})

CountGapsIn(gaps, cat) ==
    Cardinality({i \in DOMAIN gaps : gaps[i].skill_match.skill.category = cat})

\* the CategoryAnalysis of one category
CategoryAnalysis(cat, matched, weak, missing) ==
    LET m == CountIn(matched, cat)
        w == CountIn(weak, cat)
        g == CountGapsIn(missing, cat)
    IN  [category |-> cat,
         coverage |-> IF m + w + g > 0
                      THEN [num |-> 2 * m + w, den |-> 2 * (m + w + g)]
                      ELSE [num |-> 0, den |-> 1],
         matched_count |-> m, weak_count |-> w, missing_count |-> g]

\* _analyze_categories: the dict, as the list of its values in insertion order
analyze_categories(cat_order, matched, weak, missing) ==
    [i \in DOMAIN cat_order |-> CategoryAnalysis(cat_order[i], matched, weak, missing)]

\* a score that credits a weak match in full
overall_score_weak_in_full(matched, weak, jd_keys) ==
    IF jd_keys = {} THEN [num |-> 0, den |-> 1]
    ELSE [num |-> 2 * Len(matched) + 2 * Len(weak), den |-> 2 * Cardinality(jd_keys)]

\* _compute_overall_score
compute_overall_score(matched, weak, jd_keys) ==
    IF jd_keys = {} THEN [num |-> 0, den |-> 1]
    ELSE [num |-> 2 * Len(matched) + Len(weak), den |-> 2 * Cardinality(jd_keys)]

RECURSIVE SumSeq(_)
SumSeq(q) == IF q = <<>> THEN 0 ELSE Head(q) + SumSeq(Tail(q))

\* _compute_confidence_score: the weighted mean of the confidences
compute_confidence_score(matched, weak) ==
    LET both == matched \o weak
        total_weights == SumSeq([i \in DOMAIN both |-> both[i].skill.weight])
    IN  IF both = <<>> \/ total_weights = 0 THEN [num |-> 0, den |-> 1]
        ELSE [num |-> SumSeq([i \in DOMAIN both |-> both[i].confidence * both[i].skill.weight]),
              den |-> 100 * total_weights]

\* the [:3] of the skills a recommendation names
MaxNamed == 3

\* the [:5] of the recommendations returned
MaxRecommendations == 5

FirstN(q, n) == SubSeq(q, 1, Min({n, Len(q)}))

SelectGaps(missing, priority) ==
    SelectSeq(missing, LAMBDA g : g.priority = priority)

\* coverage < 0.5
LowCoverage(c) == 2 * c.coverage.num < c.coverage.den

\* a Recommendation: its priority and title, then what its texts are built of
Recommendation(priority, title, named, first) ==
    [priority |-> priority, title |-> title, named |-> named, first |-> first]

\* recommendations that name every gap of the priority
recommendations_naming_all(missing, weak, categories) ==
    LET critical == SelectGaps(missing, "Critical")
        high == SelectGaps(missing, "High")
        low_coverage == SelectSeq(categories, LowCoverage)
        gapnames(gs) == [i \in DOMAIN gs |-> gs[i].skill_match.skill.name]
    IN  (IF critical # <<>>
         THEN <<Recommendation("Critical", "Add Critical Skills", gapnames(critical),
                               critical[1].skill_match.skill.name)>>
         ELSE <<>>)
        \o (IF high # <<>>
            THEN <<Recommendation("High", "Strengthen Core Skills", gapnames(high),
                                  high[1].skill_match.skill.name)>>
            ELSE <<>>)
        \o (IF weak # <<>>
            THEN <<Recommendation("Medium", "Strengthen Weak Matches",
                      [i \in DOMAIN FirstN(weak, MaxNamed) |-> weak[i].skill.name], "")>>
            ELSE <<>>)
        \o (IF low_coverage # <<>>
            THEN <<Recommendation("Medium", "Improve Category Coverage", <<>>,
                                  low_coverage[1].category)>>
            ELSE <<>>)

\* _generate_recommendations
generate_recommendations(missing, weak, categories) ==
    LET critical == SelectGaps(missing, "Critical")
        high == SelectGaps(missing, "High")
        low_coverage == SelectSeq(categories, LowCoverage)
        gapnames(gs) == [i \in DOMAIN FirstN(gs, MaxNamed) |-> gs[i].skill_match.skill.name]
        recs ==
            (IF critical # <<>>
             THEN <<Recommendation("Critical", "Add Critical Skills", gapnames(critical),
                                   critical[1].skill_match.skill.name)>>
             ELSE <<>>)
            \o (IF high # <<>>
                THEN <<Recommendation("High", "Strengthen Core Skills", gapnames(high),
                                      high[1].skill_match.skill.name)>>
                ELSE <<>>)
            \o (IF weak # <<>>
                THEN <<Recommendation("Medium", "Strengthen Weak Matches",
                          [i \in DOMAIN FirstN(weak, MaxNamed) |-> weak[i].skill.name], "")>>
                ELSE <<>>)
            \o (IF low_coverage # <<>>
                THEN <<Recommendation("Medium", "Improve Category Coverage", <<>>,
                                      low_coverage[1].category)>>
                ELSE <<>>)
    IN  FirstN(recs, MaxRecommendations)

\* GapAnalyzer.analyze, with the orders its loops over sets take
analyze(resume, jd, matched_order, missing_order, cat_order) ==
    LET resume_map == MatchMap(resume)
        jd_map == MatchMap(jd)
        matched == SelectMatches(matched_order, resume_map, TRUE, 1)
        weak == SelectMatches(matched_order, resume_map, FALSE, 1)
        missing == analyze_missing(missing_order, jd_map)
        category_analysis == analyze_categories(cat_order, matched, weak, missing)
    IN  [overall_score |-> compute_overall_score(matched, weak, DOMAIN jd_map),
         confidence_score |-> compute_confidence_score(matched, weak),
         matched_skills |-> matched,
         missing_skills |-> missing,
         weak_matches |-> weak,
         category_analysis |-> category_analysis,
         recommendations |-> generate_recommendations(missing, weak, category_analysis)]

\* matched_keys = resume_keys & jd_keys
MatchedKeys(resume, jd) == (DOMAIN MatchMap(resume)) \cap (DOMAIN MatchMap(jd))

\* every key of the JD taken as missing
AllJdKeys(resume, jd) == DOMAIN MatchMap(jd)

\* missing_keys = jd_keys - resume_keys
MissingKeys(resume, jd) == (DOMAIN MatchMap(jd)) \ (DOMAIN MatchMap(resume))

\* the categories _analyze_categories loops over
CategoriesOf(resume, jd) ==
    {MatchMap(resume)[k].skill.category : k \in MatchedKeys(resume, jd)}
        \cup {MatchMap(jd)[k].skill.category : k \in MissingKeys(resume, jd)}

InitGapIdle ==
    /\ ga_pc = "idle"
    /\ resume_skills = <<>>
    /\ jd_skills = <<>>
    /\ report = None

\* gap_report = gap_analyzer.analyze(resume_skills, jd_skills)
AnalyzeGaps ==
    /\ ga_pc = "idle"
    /\ \E resume \in ResumeLists, jd \in JdLists :
        \E matched_order \in Orders(MatchedKeys(resume, jd)),
           missing_order \in Orders(MissingKeys(resume, jd)),
           cat_order \in Orders(CategoriesOf(resume, jd)) :
            /\ resume_skills' = resume
            /\ jd_skills' = jd
            /\ report' = analyze(resume, jd, matched_order, missing_order, cat_order)
    /\ ga_pc' = "done"
    /\ UNCHANGED <<tx_vars, ex_vars, pp_vars, sim_vars, pdf_vars, iv_vars, cc_vars>>

(***************************************************************************)
(* core/pdf_parser.py: PDFParser                                           *)
(*                                                                         *)
(* A strategy is its name and what its extract does for the file: it       *)
(* raises exc, or it returns text.                                         *)
(***************************************************************************)
MaxStrategies == 3

\* the min_length of _is_valid
min_length == 100

RECURSIVE Repeat(_, _)
\* c * n
Repeat(c, n) == IF n <= 0 THEN "" ELSE c \o Repeat(c, n - 1)

\* a text of letters, then spaces, then digits, after some leading whitespace
TextOf(lead, alpha, inner, digits) ==
    Repeat(" ", lead) \o Repeat("a", alpha) \o Repeat(" ", inner) \o Repeat("7", digits)

\* c.isalpha(), on ASCII
IsAlpha(c) == c \in UpperSet \cup LowerSet

\* _is_valid(text): alpha_chars / total_chars > 0.4 over the stripped text
is_valid(text) ==
    IF text = "" THEN FALSE
    ELSE LET stripped == Strip(text)
             total_chars == Len(stripped)
             alpha_chars == Cardinality({i \in 1..Len(stripped) : IsAlpha(Chr(stripped, i))})
         IN  IF Len(stripped) < min_length THEN FALSE
             ELSE IF total_chars = 0 THEN FALSE
             ELSE 10 * alpha_chars > 4 * total_chars

\* the texts a strategy returns: nothing, too short, letters, letters and
\* digits, digits, and letters, spaces and digits
PdfTexts ==
    {"", "abc", TextOf(0, 100, 0, 0), TextOf(1, 60, 0, 40), TextOf(0, 0, 0, 100),
     TextOf(0, 40, 20, 40)}

StrategyNames == <<"pdfplumber", "pypdf2", "ocr", "raw">>

Outcomes ==
    {[raises |-> TRUE, exc |-> "boom", text |-> ""]}
        \cup {[raises |-> FALSE, exc |-> "", text |-> t] : t \in PdfTexts}

\* the lists PDFParser can be constructed with
StrategyLists ==
    UNION {{[i \in 1..k |-> [name |-> StrategyNames[i], outcome |-> o[i]]] : o \in [1..k -> Outcomes]} :
            k \in 0..MaxStrategies}

\* what pdf_file is: a str, a Path, or something else
InputKinds == {"str", "Path", "bytes"}

\* the try block of extract_text for one strategy: it returns the text, or it
\* goes on with the errors it has
attempt_any_text(strategy, errs) ==
    IF strategy.outcome.raises
    THEN [returned |-> FALSE, text |-> "",
          errors |-> Append(errs, [name |-> strategy.name, exc |-> strategy.outcome.exc])]
    ELSE [returned |-> TRUE, text |-> strategy.outcome.text, errors |-> errs]

\* the try block of extract_text for one strategy: it returns the text, or it
\* goes on with the errors it has
attempt(strategy, errs) ==
    IF strategy.outcome.raises
    THEN [returned |-> FALSE, text |-> "",
          errors |-> Append(errs, [name |-> strategy.name, exc |-> strategy.outcome.exc])]
    ELSE IF is_valid(strategy.outcome.text)
         THEN [returned |-> TRUE, text |-> strategy.outcome.text, errors |-> errs]
         ELSE [returned |-> FALSE, text |-> "", errors |-> errs]

InitPdfNew ==
    /\ pdf_pc = "new"
    /\ strategies = <<>>
    /\ pdf_i = 0
    /\ errors = <<>>
    /\ invoked = <<>>
    /\ pdf_result = None

\* PDFParser(strategies): without a list (or with an empty one) it names
\* PDFPlumberStrategy, which the module neither defines nor imports
Construct ==
    /\ pdf_pc = "new"
    /\ \E given \in StrategyLists :
        IF given = <<>>
        THEN /\ pdf_pc' = "init_raised"
             /\ pdf_result' = [raised |-> "NameError", entries |-> <<>>]
             /\ UNCHANGED strategies
        ELSE /\ pdf_pc' = "ready"
             /\ strategies' = given
             /\ UNCHANGED pdf_result
    /\ UNCHANGED <<pdf_i, errors, invoked>>
    /\ UNCHANGED <<tx_vars, ex_vars, pp_vars, sim_vars, ga_vars, iv_vars, cc_vars>>

\* extract_text(pdf_file): _normalize_input, then the empty errors list
ExtractTextCall ==
    /\ pdf_pc = "ready"
    /\ \E kind \in InputKinds :
        IF kind \in {"str", "Path"}
        THEN /\ pdf_pc' = "loop"
             /\ pdf_i' = 1
             /\ UNCHANGED pdf_result
        ELSE /\ pdf_pc' = "type_error"
             /\ pdf_result' = [raised |-> "TypeError", entries |-> <<>>]
             /\ UNCHANGED pdf_i
    /\ errors' = <<>>
    /\ invoked' = <<>>
    /\ UNCHANGED strategies
    /\ UNCHANGED <<tx_vars, ex_vars, pp_vars, sim_vars, ga_vars, iv_vars, cc_vars>>

\* one turn of the loop over self.strategies
TryStrategy ==
    /\ pdf_pc = "loop"
    /\ pdf_i <= Len(strategies)
    /\ LET tried == attempt(strategies[pdf_i], errors)
       IN  /\ invoked' = Append(invoked, pdf_i)
           /\ errors' = tried.errors
           /\ IF tried.returned
              THEN /\ pdf_pc' = "returned"
                   /\ pdf_result' = tried.text
                   /\ UNCHANGED pdf_i
              ELSE /\ pdf_i' = pdf_i + 1
                   /\ UNCHANGED <<pdf_pc, pdf_result>>
    /\ UNCHANGED strategies
    /\ UNCHANGED <<tx_vars, ex_vars, pp_vars, sim_vars, ga_vars, iv_vars, cc_vars>>

\* raise ValueError("All PDF extraction strategies failed. " + " | ".join(errors))
AllFailed ==
    /\ pdf_pc = "loop"
    /\ pdf_i > Len(strategies)
    /\ pdf_pc' = "failed"
    /\ pdf_result' = [raised |-> "ValueError", entries |-> errors]
    /\ UNCHANGED <<strategies, pdf_i, errors, invoked>>
    /\ UNCHANGED <<tx_vars, ex_vars, pp_vars, sim_vars, ga_vars, iv_vars, cc_vars>>

(***************************************************************************)
(* core/pdf_parser.py: PDFParser._is_valid on its own                      *)
(***************************************************************************)
\* the counts of leading blanks, letters, inner blanks and digits of a text
LeadCounts == {0, 2}

AlphaCounts == {0, 39, 40, 41, 50, 99, 100}

InnerCounts == {0, 1, 20}

DigitCounts == {0, 39, 40, 59, 60}

ValidTexts ==
    {TextOf(l, a, w, d) : l \in LeadCounts, a \in AlphaCounts, w \in InnerCounts, d \in DigitCounts}

InitValidIdle ==
    /\ iv_pc = "idle"
    /\ iv_text = None
    /\ iv_valid = FALSE

\* self._is_valid(text)
IsValid ==
    /\ iv_pc = "idle"
    /\ \E text \in ValidTexts :
        /\ iv_text' = text
        /\ iv_valid' = is_valid(text)
    /\ iv_pc' = "done"
    /\ UNCHANGED <<tx_vars, ex_vars, pp_vars, sim_vars, ga_vars, pdf_vars, cc_vars>>

(***************************************************************************)
(* app.py: several analyses at once on the components get_components made  *)
(*                                                                         *)
(* calls[t] holds what one call owns: its text, the seen set and the       *)
(* matches list of its extract_skills, its result, and the report of the   *)
(* analyze that follows. The taxonomy (skills, variant_index) is what the  *)
(* calls share. analyze is one step: it reads its two arguments and writes *)
(* only its locals (GapAnalyzer has no attribute).                         *)
(***************************************************************************)
MaxCalls == 2

Threads == 1..MaxCalls

\* a text with no skill, two that return matches, one that reaches fuzz.ratio
ConcurrentTexts == {"", "py c#", "Go JS", "java"}

ConcurrentJdLists ==
    {[i \in DOMAIN names |-> SkillMatch(SkillNamed(names[i]), "exact", 100, "")] :
        names \in {<<"Python">>, <<"Go", "Docker">>}}

NoReport == [none |-> TRUE]

IdleCall ==
    [pc |-> "idle", text |-> "", seen |-> {}, matches |-> <<>>,
     result |-> [raised |-> None, matches |-> <<>>], jd |-> <<>>, report |-> NoReport]

\* a seen set that all the calls in flight would share
AnyCallSeen(cs, t) == UNION {cs[u].seen : u \in DOMAIN cs}

\* the seen set of a call: the local of its own extract_skills
CallSeen(cs, t) == cs[t].seen

InitConcurrentIdle == calls = [t \in Threads |-> IdleCall]

\* extract_skills(text) of one call, up to its fresh seen and matches
CallExtract(t) ==
    /\ calls[t].pc = "idle"
    /\ \E text \in ConcurrentTexts :
        calls' = [calls EXCEPT ![t] =
                    [@ EXCEPT !.text = text, !.seen = {}, !.matches = <<>>,
                              !.pc = IF text = "" THEN "returned" ELSE "exact"]]
    /\ UNCHANGED <<tx_vars, ex_vars, pp_vars, sim_vars, ga_vars, pdf_vars, iv_vars>>

\* the three matchers of one call, one after the other
CallMatcher(t) ==
    /\ calls[t].pc \in {"exact", "variant", "fuzzy"}
    /\ LET c == calls[t]
           r == CASE c.pc = "exact" -> ExactFindMatches(c.text, skills, CallSeen(calls, t))
                  [] c.pc = "variant" -> VariantFindMatches(c.text, skills, CallSeen(calls, t))
                  [] OTHER -> FuzzyFindMatches(c.text, skills, CallSeen(calls, t))
           raised == c.pc = "fuzzy" /\ r.raised # None
       IN  calls' = [calls EXCEPT ![t] =
                        [@ EXCEPT !.seen = r.seen,
                                  !.matches = c.matches \o r.matches,
                                  !.result = IF raised
                                             THEN [raised |-> r.raised, matches |-> <<>>]
                                             ELSE c.result,
                                  !.pc = CASE c.pc = "exact" -> "variant"
                                           [] c.pc = "variant" -> "fuzzy"
                                           [] OTHER -> IF raised THEN "raised" ELSE "sort"]]
    /\ UNCHANGED <<tx_vars, ex_vars, pp_vars, sim_vars, ga_vars, pdf_vars, iv_vars>>

\* return sorted(matches, ...) of one call
CallReturn(t) ==
    /\ calls[t].pc = "sort"
    /\ calls' = [calls EXCEPT ![t] =
                    [@ EXCEPT !.result = [raised |-> None,
                                          matches |-> SortedByConfidence(calls[t].matches)],
                              !.pc = "returned"]]
    /\ UNCHANGED <<tx_vars, ex_vars, pp_vars, sim_vars, ga_vars, pdf_vars, iv_vars>>

\* gap_analyzer.analyze(resume_skills, jd_skills) of one call
CallAnalyze(t) ==
    /\ calls[t].pc = "returned"
    /\ \E jd \in ConcurrentJdLists :
        LET resume == calls[t].result.matches
        IN  \E matched_order \in Orders(MatchedKeys(resume, jd)),
               missing_order \in Orders(MissingKeys(resume, jd)),
               cat_order \in Orders(CategoriesOf(resume, jd)) :
                calls' = [calls EXCEPT ![t] =
                            [@ EXCEPT !.jd = jd,
                                      !.report = analyze(resume, jd, matched_order,
                                                         missing_order, cat_order),
                                      !.pc = "analyzed"]]
    /\ UNCHANGED <<tx_vars, ex_vars, pp_vars, sim_vars, ga_vars, pdf_vars, iv_vars>>

(***************************************************************************)
(* Specifications, one per component                                       *)
(***************************************************************************)
\* the state before the taxonomy has loaded a skill
InitEmpty ==
    /\ InitTaxonomyEmpty
    /\ InitExtractIdle
    /\ InitNormalizeIdle
    /\ InitSimilarityIdle
    /\ InitGapIdle
    /\ InitPdfNew
    /\ InitValidIdle
    /\ InitConcurrentIdle

\* the state with the pipeline's objects constructed and no call made
InitLoaded ==
    /\ InitTaxonomyLoaded
    /\ InitExtractIdle
    /\ InitNormalizeIdle
    /\ InitSimilarityIdle
    /\ InitGapIdle
    /\ InitPdfNew
    /\ InitValidIdle
    /\ InitConcurrentIdle

NextTaxonomy == Register \/ LoadDone \/ GetByVariant

SpecTaxonomy ==
    InitEmpty /\ [][NextTaxonomy]_vars

NextExtract == ExtractCall \/ RunExact \/ RunVariant \/ RunFuzzy \/ ExtractReturn

SpecExtract ==
    InitLoaded /\ [][NextExtract]_vars

NextNormalize == Process \/ ProcessAgain

SpecNormalize ==
    InitLoaded /\ [][NextNormalize]_vars

NextSimilarity == ComputeSimilarity

SpecSimilarity == InitLoaded /\ [][NextSimilarity]_vars

NextGap == AnalyzeGaps

SpecGap == InitLoaded /\ [][NextGap]_vars

NextPdf == Construct \/ ExtractTextCall \/ TryStrategy \/ AllFailed

SpecPdf == InitLoaded /\ [][NextPdf]_vars

NextValid == IsValid

SpecValid == InitLoaded /\ [][NextValid]_vars

NextConcurrent ==
    \E t \in Threads : CallExtract(t) \/ CallMatcher(t) \/ CallReturn(t) \/ CallAnalyze(t)

SpecConcurrent == InitLoaded /\ [][NextConcurrent]_vars

(***************************************************************************)
(* Properties: skill extractor                                             *)
(***************************************************************************)
SkillKeys(ms) == [i \in DOMAIN ms |-> LowerStr(ms[i].skill.name)]

\* C1: extract_skills never fails for a valid string: the cascade always ends
\* by returning a list, and no error raised inside a strategy gets out of it.
C1_ExtractNeverRaises == ex_pc # "raised"

\* C2: the list extract_skills returns holds at most one SkillMatch per
\* canonical skill name: a skill an earlier strategy matched is not emitted
\* again by a later one.
C2_AtMostOnePerSkill ==
    ex_pc = "returned" =>
        \A i, j \in DOMAIN ex_result :
            i # j => SkillKeys(ex_result)[i] # SkillKeys(ex_result)[j]

\* a call has returned a skill matched exactly whose variant is in the text too,
\* next to a skill the variant matcher reported
C2_Witness ==
    /\ ex_pc = "returned"
    /\ \E i \in DOMAIN ex_result :
        /\ ex_result[i].match_type = "exact"
        /\ FirstVariantFound(LowerStr(ex_text), ex_result[i].skill) # 0
    /\ \E i \in DOMAIN ex_result : ex_result[i].match_type = "variant"

\* C3: extract_skills("Experienced in Python and Golang") returns a list with
\* Python (exact, 1.0) and Go (variant, 0.98) and no fuzzy match for Go; and no
\* strict_match skill is ever reported with match type fuzzy.
C3_GolangExample ==
    /\ (ex_text = GolangText /\ ex_pc \in {"returned", "raised"}) =>
        /\ ex_pc = "returned"
        /\ \E i \in DOMAIN ex_result :
            /\ ex_result[i].skill.name = "Python"
            /\ ex_result[i].match_type = "exact"
            /\ ex_result[i].confidence = 100
        /\ \E i \in DOMAIN ex_result :
            /\ ex_result[i].skill.name = "Go"
            /\ ex_result[i].match_type = "variant"
            /\ ex_result[i].confidence = 98
    /\ \A i \in DOMAIN matches :
        matches[i].skill.strict_match => matches[i].match_type # "fuzzy"

(***************************************************************************)
(* Properties: taxonomy                                                    *)
(***************************************************************************)
\* C4: registration rejects a skill whose name or variant is already
\* registered, so after the load no variant string belongs to two distinct
\* skills and none of the indexes was overwritten.
C4_NoSharedVariant ==
    tx_pc = "ready" =>
        /\ Len(skills) = Len(skills_data)
        /\ \A i, j \in DOMAIN skills :
            i # j => Range(skills[i].skill.variants)
                        \cap Range(skills[j].skill.variants) = {}

\* the skills whose canonical name or alias is the string t
OwnersOf(t) ==
    {skills[i].skill : i \in {k \in DOMAIN skills :
        t = skills[k].key \/ t \in Range(skills[k].skill.variants)}}

\* C5: get_by_variant(t) returns the skill whose canonical name or alias is
\* the lowercased, trimmed t, and None for every other string.
C5_LookupByNameOrAlias ==
    (tx_pc = "ready" /\ tx_query # None) =>
        IF OwnersOf(Strip(LowerStr(tx_query))) = {}
        THEN tx_result = NoSkill
        ELSE tx_result \in OwnersOf(Strip(LowerStr(tx_query)))

(***************************************************************************)
(* Properties: text normalizer                                             *)
(***************************************************************************)
\* C9: the normalizer is idempotent: process(process(x)) = process(x) for
\* every input x.
C9_ProcessIdempotent == pp_pc = "twice" => pp_twice = pp_once

(***************************************************************************)
(* Properties: similarity engine                                           *)
(***************************************************************************)
\* the terms of a text that are left in the fitted vocabulary: what the text
\* yields after vectorization
SurvivingTerms(doc) ==
    Terms(doc) \cap Vocabulary(CountTerms(resume_text), CountTerms(jd_text))

\* C6: compute_similarity(X, X), for a non-empty X with a term that is not a
\* stop word, returns a result whose overall_score is 1.0: the two vectors
\* are the same non-zero vector.
C6_SelfSimilarityIsOne ==
    (sim_pc # "idle" /\ resume_text = jd_text /\ Terms(resume_text) # {}) =>
        /\ sim_pc = "returned"
        /\ sim_result.overall_score.dot > 0
        /\ sim_result.overall_score.dot = sim_result.overall_score.resume_sq
        /\ sim_result.overall_score.dot = sim_result.overall_score.jd_sq

\* C7: whenever compute_similarity returns, term_coverage is the fraction of
\* the JD's terms that also occur in the resume, so it is 1 when the resume
\* holds every JD term.
C7_TermCoverageIsJdFraction ==
    sim_pc = "returned" =>
        /\ sim_result.term_coverage.num * Cardinality(Terms(jd_text))
              = Cardinality(Terms(jd_text) \cap Terms(resume_text))
                    * sim_result.term_coverage.den
        /\ Terms(jd_text) \subseteq Terms(resume_text) =>
              sim_result.term_coverage.num = sim_result.term_coverage.den

NamesOf(ms) == {ms[i].skill.name : i \in DOMAIN ms}

DuplicateFree(ms) ==
    \A i, j \in DOMAIN ms : i # j => ms[i].skill.name # ms[j].skill.name

\* the entries of a list, and that none comes twice
EntriesAre(q, S) == Len(q) = Cardinality(S) /\ {q[i] : i \in DOMAIN q} = S

PythonAndDocker ==
    /\ ga_pc = "done"
    /\ [i \in DOMAIN resume_skills |-> <<resume_skills[i].skill.name, resume_skills[i].confidence>>]
            = <<(<<"Python", 100>>)>>
    /\ [i \in DOMAIN jd_skills |-> <<jd_skills[i].skill.name, jd_skills[i].confidence>>]
            = << <<"Python", 100>>, <<"Docker", 100>> >>

\* C10: for match lists without a duplicate name, the matched skills (the
\* strong ones in matched_skills, the weak ones in weak_matches) are the
\* resume's matches whose name is in the JD, the missing skills are the JD's
\* matches whose name is not in the resume, and overall_score is
\* (strong + 0.5 * weak) / |JD names|; the resume {Python 1.0} against the JD
\* {Python 1.0, Docker 1.0} gives matched [Python], missing [Docker], an
\* overall score of 0.5, and for Docker the impact 0.6 and the priority High.
C10_GapScoring ==
    (ga_pc = "done" /\ DuplicateFree(resume_skills) /\ DuplicateFree(jd_skills)) =>
        LET in_jd == {i \in DOMAIN resume_skills :
                        resume_skills[i].skill.name \in NamesOf(jd_skills)}
            strong == {i \in in_jd : resume_skills[i].confidence >= StrongConfidence}
            weak == in_jd \ strong
            absent == {i \in DOMAIN jd_skills :
                        jd_skills[i].skill.name \notin NamesOf(resume_skills)}
            jd_names == Cardinality(NamesOf(jd_skills))
        IN  /\ EntriesAre(report.matched_skills, {resume_skills[i] : i \in strong})
            /\ EntriesAre(report.weak_matches, {resume_skills[i] : i \in weak})
            /\ EntriesAre([i \in DOMAIN report.missing_skills |->
                                report.missing_skills[i].skill_match],
                          {jd_skills[i] : i \in absent})
            /\ report.overall_score.den > 0
            /\ IF jd_names = 0 THEN report.overall_score.num = 0
               ELSE report.overall_score.num * 2 * jd_names
                        = (2 * Cardinality(strong) + Cardinality(weak)) * report.overall_score.den
            /\ PythonAndDocker =>
                /\ [i \in DOMAIN report.matched_skills |-> report.matched_skills[i].skill.name]
                        = <<"Python">>
                /\ report.weak_matches = <<>>
                /\ Len(report.missing_skills) = 1
                /\ report.missing_skills[1].skill_match.skill.name = "Docker"
                /\ 2 * report.overall_score.num = report.overall_score.den
                /\ report.missing_skills[1].impact_score = 1800
                /\ report.missing_skills[1].priority = "High"

\* the report of the Python and Docker example
C10_Witness == PythonAndDocker /\ Len(report.missing_skills) = 1

\* the gaps of a report that have the priority
GapsOfPriority(priority) ==
    {i \in DOMAIN report.missing_skills : report.missing_skills[i].priority = priority}

\* the titles of the recommendations whose triggers hold, in the fixed order
TriggeredTitles ==
    (IF GapsOfPriority("Critical") # {} THEN <<"Add Critical Skills">> ELSE <<>>)
    \o (IF GapsOfPriority("High") # {} THEN <<"Strengthen Core Skills">> ELSE <<>>)
    \o (IF report.weak_matches # <<>> THEN <<"Strengthen Weak Matches">> ELSE <<>>)
    \o (IF \E i \in DOMAIN report.category_analysis :
                2 * report.category_analysis[i].coverage.num
                    < report.category_analysis[i].coverage.den
        THEN <<"Improve Category Coverage">> ELSE <<>>)

\* C11: the recommendations are at most 5, at most one per trigger, in the
\* order Critical gaps, High gaps, weak matches, low-coverage category; each
\* is there exactly when its trigger holds (a Critical gap, a High gap, a
\* weak match, a category with coverage under 0.5), and a gap recommendation
\* names at most 3 skills, all gaps of its priority.
C11_RecommendationsCappedAndOrdered ==
    ga_pc = "done" =>
        LET recs == report.recommendations
        IN  /\ Len(recs) <= 5
            /\ [i \in DOMAIN recs |-> recs[i].title] = TriggeredTitles
            /\ \A i \in DOMAIN recs :
                /\ Len(recs[i].named) <= 3
                /\ recs[i].title \in {"Add Critical Skills", "Strengthen Core Skills"} =>
                    /\ recs[i].named # <<>>
                    /\ \A k \in DOMAIN recs[i].named :
                        \E g \in GapsOfPriority(recs[i].priority) :
                            report.missing_skills[g].skill_match.skill.name = recs[i].named[k]

\* a report with more than 3 High gaps whose first recommendation names 3
C11_Witness ==
    /\ ga_pc = "done"
    /\ Cardinality(GapsOfPriority("High")) > 3
    /\ Len(report.recommendations) >= 2
    /\ Len(report.recommendations[1].named) = 3

(***************************************************************************)
(* Properties: PDF parser                                                  *)
(***************************************************************************)
\* the strategy raises for the file, or its text does not pass _is_valid
StrategyFails(i) ==
    strategies[i].outcome.raises \/ ~is_valid(strategies[i].outcome.text)

\* C12: extract_text tries every configured strategy in list order and raises
\* only after all of them have failed, and the error it raises has one entry
\* for each strategy that failed: for one whose text was rejected by the
\* validation as for one that raised.
C12_AllFailuresReported ==
    pdf_pc = "failed" =>
        /\ invoked = [i \in 1..Len(strategies) |-> i]
        /\ \A i \in DOMAIN strategies : StrategyFails(i)
        /\ [k \in DOMAIN pdf_result.entries |-> pdf_result.entries[k].name]
                = [i \in DOMAIN strategies |-> strategies[i].name]

\* the strategies up to the first that does not fail, all of them if all fail
FirstValid ==
    IF \E i \in DOMAIN strategies : ~StrategyFails(i)
    THEN Min({i \in DOMAIN strategies : ~StrategyFails(i)})
    ELSE 0

\* C18: extract_text returns the text of the first strategy in list order
\* whose output passes _is_valid and invokes no strategy after it; a strategy
\* that raises or returns invalid text does not stop the cascade: the next
\* one is tried, and the call fails only when none is left.
C18_FirstValidWins ==
    /\ pdf_pc = "returned" =>
        /\ FirstValid > 0
        /\ pdf_result = strategies[FirstValid].outcome.text
        /\ invoked = [i \in 1..FirstValid |-> i]
    /\ pdf_pc = "failed" =>
        /\ FirstValid = 0
        /\ invoked = [i \in 1..Len(strategies) |-> i]
    /\ pdf_pc = "loop" =>
        /\ invoked = [i \in 1..(pdf_i - 1) |-> i]
        /\ \A i \in 1..(pdf_i - 1) : StrategyFails(i)
        /\ pdf_i <= Len(strategies) + 1

\* a call over three strategies returned the text of the second after the
\* first had failed, and did not invoke the third
C18_Witness ==
    /\ pdf_pc = "returned"
    /\ Len(strategies) = 3
    /\ FirstValid = 2
    /\ StrategyFails(1)
    /\ invoked = <<1, 2>>

(***************************************************************************)
(* Properties: text validation                                             *)
(***************************************************************************)
\* the characters of a text that are not whitespace
NonWhitespace(text) ==
    Cardinality({i \in 1..Len(text) : Chr(text, i) \notin WhitespaceChars})

\* the letters of a text
AlphaCount(text) == Cardinality({i \in 1..Len(text) : IsAlpha(Chr(text, i))})

\* C13: _is_valid rejects a text exactly when its stripped length is under
\* 100 or the ratio of its letters to its characters that are not whitespace
\* is at most 0.4; whitespace inside the text does not count.
C13_ValidByNonWhitespaceRatio ==
    iv_pc = "done" =>
        (iv_valid <=>
            ~(\/ Len(Strip(iv_text)) < 100
              \/ 10 * AlphaCount(Strip(iv_text)) <= 4 * NonWhitespace(Strip(iv_text))))

(***************************************************************************)
(* Properties: calls at once                                               *)
(***************************************************************************)
\* extract_skills(text) run alone, up to and with the matcher of the stage
StagesAlone(text) ==
    LET e == ExactFindMatches(text, TaxonomySkills, {})
        v == VariantFindMatches(text, TaxonomySkills, e.seen)
        f == FuzzyFindMatches(text, TaxonomySkills, v.seen)
    IN  [exact |-> [seen |-> e.seen, matches |-> e.matches, raised |-> None],
         variant |-> [seen |-> v.seen, matches |-> e.matches \o v.matches, raised |-> None],
         fuzzy |-> [seen |-> f.seen, matches |-> e.matches \o v.matches \o f.matches,
                    raised |-> f.raised]]

\* the stages of every text, computed once
AloneAfter == [text \in ConcurrentTexts |-> StagesAlone(text)]

\* what extract_skills(text) run alone returns or raises
ExtractAlone ==
    [text \in ConcurrentTexts |->
        IF text = "" THEN [raised |-> None, matches |-> <<>>]
        ELSE IF AloneAfter[text].fuzzy.raised # None
             THEN [raised |-> AloneAfter[text].fuzzy.raised, matches |-> <<>>]
             ELSE [raised |-> None,
                   matches |-> SortedByConfidence(AloneAfter[text].fuzzy.matches)]]

\* the reports analyze(resume, jd) run alone can return
ReportsAlone(resume, jd) ==
    {analyze(resume, jd, matched_order, missing_order, cat_order) :
        matched_order \in Orders(MatchedKeys(resume, jd)),
        missing_order \in Orders(MissingKeys(resume, jd)),
        cat_order \in Orders(CategoriesOf(resume, jd))}

\* C14: calls of extract_skills and analyze interleaved on the same
\* components do not touch each other: the taxonomy's two indexes stay as
\* construction left them, each call's seen set and matches list hold only
\* what its own matchers put there, and each call returns (or raises) what
\* it would have running alone.
C14_CallsIsolated ==
    /\ skills = TaxonomySkills
    /\ variant_index = TaxonomyVariants
    /\ \A t \in Threads :
        LET c == calls[t]
        IN  /\ c.text \in ConcurrentTexts
            /\ c.pc = "variant" =>
                /\ c.seen = AloneAfter[c.text].exact.seen
                /\ c.matches = AloneAfter[c.text].exact.matches
            /\ c.pc = "fuzzy" =>
                /\ c.seen = AloneAfter[c.text].variant.seen
                /\ c.matches = AloneAfter[c.text].variant.matches
            /\ c.pc \in {"returned", "raised", "analyzed"} => c.result = ExtractAlone[c.text]
            /\ c.pc = "analyzed" => c.report \in ReportsAlone(ExtractAlone[c.text].matches, c.jd)

\* one call is between its matchers, with a skill in its seen set, while
\* another call on a text with the same skill has returned and been analyzed
C14_Witness ==
    \E t, u \in Threads :
        /\ t # u
        /\ calls[t].pc = "fuzzy"
        /\ calls[t].seen # {}
        /\ calls[u].pc = "analyzed"
        /\ calls[u].text = calls[t].text
        /\ calls[u].result.matches # <<>>

(***************************************************************************)
(* Properties: gap analyzer, categories, ranking and partition             *)
(***************************************************************************)
\* the categories of the skills of a match list
CategoriesIn(ms) == {ms[i].skill.category : i \in DOMAIN ms}

\* C15: category_analysis has exactly one entry per category of a skill that
\* is in the resume's match list or in the JD's, the categories that only
\* skills of the resume alone belong to included, and the coverage of an
\* entry is (strong + 0.5 * weak) / (strong + weak + missing) of its
\* category, between 0 and 1.
C15_EveryCategoryCovered ==
    ga_pc = "done" =>
        LET entries == report.category_analysis
        IN  /\ EntriesAre([i \in DOMAIN entries |-> entries[i].category],
                          CategoriesIn(resume_skills) \cup CategoriesIn(jd_skills))
            /\ \A i \in DOMAIN entries :
                LET strong == CountIn(report.matched_skills, entries[i].category)
                    weak == CountIn(report.weak_matches, entries[i].category)
                    missing == CountGapsIn(report.missing_skills, entries[i].category)
                    coverage == entries[i].coverage
                IN  /\ coverage.den > 0
                    /\ coverage.num * 2 * (strong + weak + missing)
                            = (2 * strong + weak) * coverage.den
                    /\ 0 <= coverage.num /\ coverage.num <= coverage.den

\* min(skillWeight * categoryWeight / 1.5, 1.0) of a gap, in units of 1/3000
ImpactByFormula(g) ==
    Min({20 * g.skill_match.skill.weight * CATEGORY_WEIGHTS[g.skill_match.skill.category],
         3000})

\* the tier of an impact: 4 for Critical down to 1 for Low
TierOf(impact) ==
    IF impact >= 2400 THEN 4 ELSE IF impact >= 1800 THEN 3 ELSE IF impact >= 1200 THEN 2 ELSE 1

TierNamed(priority) ==
    CASE priority = "Critical" -> 4 [] priority = "High" -> 3
      [] priority = "Medium" -> 2 [] OTHER -> 1

\* C16: each gap has impact min(skillWeight * categoryWeight / 1.5, 1.0) and
\* the priority of that impact (Critical from 0.8, High from 0.6, Medium from
\* 0.4, else Low), and missing_skills is in non-increasing order of impact,
\* so no gap of a lower tier precedes one of a higher tier.
C16_GapsRankedByImpact ==
    ga_pc = "done" =>
        LET gaps == report.missing_skills
        IN  /\ \A i \in DOMAIN gaps :
                /\ gaps[i].impact_score = ImpactByFormula(gaps[i])
                /\ TierNamed(gaps[i].priority) = TierOf(ImpactByFormula(gaps[i]))
            /\ \A i, j \in DOMAIN gaps :
                i < j => /\ gaps[i].impact_score >= gaps[j].impact_score
                         /\ TierNamed(gaps[i].priority) >= TierNamed(gaps[j].priority)

\* the lowercased names of the skills of a list
KeysOf(names) == {LowerStr(n) : n \in names}

\* C17: every distinct lowercased JD skill name is in exactly one of
\* matched_skills (resume confidence >= 0.9), weak_matches (under 0.9) and
\* missing_skills, so the three lengths add up to the number of JD names and
\* overall_score is between 0 and 1; a skill of the resume alone is in none
\* of them; duplicate names in the inputs change nothing of this.
C17_JdNamesPartitioned ==
    ga_pc = "done" =>
        LET matched == [i \in DOMAIN report.matched_skills |->
                            report.matched_skills[i].skill.name]
            weak == [i \in DOMAIN report.weak_matches |-> report.weak_matches[i].skill.name]
            missing == [i \in DOMAIN report.missing_skills |->
                            report.missing_skills[i].skill_match.skill.name]
            all == matched \o weak \o missing
        IN  /\ EntriesAre(all, NamesOf(jd_skills))
            /\ Len(matched) + Len(weak) + Len(missing) = Cardinality(KeysOf(NamesOf(jd_skills)))
            /\ \A i \in DOMAIN report.matched_skills :
                /\ report.matched_skills[i].confidence >= 90
                /\ \E k \in DOMAIN resume_skills : resume_skills[k] = report.matched_skills[i]
            /\ \A i \in DOMAIN report.weak_matches :
                /\ report.weak_matches[i].confidence < 90
                /\ \E k \in DOMAIN resume_skills : resume_skills[k] = report.weak_matches[i]
            /\ \A i \in DOMAIN missing : missing[i] \notin NamesOf(resume_skills)
            /\ 0 <= report.overall_score.num
            /\ report.overall_score.num <= report.overall_score.den

\* a report for lists with a name twice: in the resume with two confidences,
\* in the JD too, and with a skill the JD does not ask for
C17_Witness ==
    /\ ga_pc = "done"
    /\ \E i, j \in DOMAIN resume_skills :
        /\ i # j
        /\ resume_skills[i].skill.name = resume_skills[j].skill.name
        /\ resume_skills[i].confidence # resume_skills[j].confidence
        /\ resume_skills[i].skill.name \in NamesOf(jd_skills)
    /\ ~DuplicateFree(jd_skills)
    /\ report.missing_skills # <<>>

====
